---- MODULE Spec2Model ----
(***************************************************************************)
(* Replacement policies of the set-associative cache simulator:            *)
(* LRU, LRU_PREFER_CLEAN and RAND (replacement_policies.c).                *)
(* Arrays are modelled as functions over 0..n-1, as in the C source.       *)
(***************************************************************************)
EXTENDS Integers, Sequences, FiniteSets, TLC

\* ------------------------------------------------------------------ bounds
\* largest number of sets of a cache
MaxSets == 2
\* largest associativity of a cache
MaxAssoc == 3
\* largest number of cache lines (sets * associativity) of a cache
MaxLines == 4
\* largest number of cleanup calls made on one instance
MaxReleases == 2
\* width in bits of the random word of the uniform generator
RandBits == 3

\* --------------------------------------------------------------- constants
INVALID == "INVALID"
EXCLUSIVE == "EXCLUSIVE"
MODIFIED == "MODIFIED"
Statuses == {INVALID, EXCLUSIVE, MODIFIED}
\* The policies read a tag only in the test `line.tag == tag` of cache_access
\* and the cache level may rewrite any line between two calls, so two tag
\* values (the probed one and another one) give every pattern of matching
\* lines a call can meet.
Tags == {0, 1}

LRU == "LRU"
LRU_PREFER_CLEAN == "LRU_PREFER_CLEAN"
RAND == "RAND"
Kinds == {LRU, LRU_PREFER_CLEAN, RAND}

\* cache geometries <<sets, associativity>>: sets >= 1, associativity >= 1,
\* at most MaxLines lines
Geometries ==
    {g \in (1..MaxSets) \X (1..MaxAssoc) : g[1] * g[2] <= MaxLines}

\* heap blocks a constructor can allocate
PolicyBlk == <<"policy", 0>>
MetaBlk == <<"metadata", 0>>
OrderBlk == <<"order", 0>>
RowBlk(s) == <<"row", s>>
NoBlk == <<"none", 0>>
Blocks == {PolicyBlk, MetaBlk, OrderBlk} \cup {RowBlk(s) : s \in 0..(MaxSets - 1)}
RowsBelow(n) == {RowBlk(s) : s \in 0..(n - 1)}

VARIABLES
    pc,            \* "new" | "live" | "nomem" | "crashed" | "released" | "corrupt"
    kind,          \* which constructor / function pointers the policy has
    cache_system,  \* struct cache_system: num_sets, associativity, cache_lines
    data,          \* replacement_policy->data: "NULL" or "metadata"
    metadata,      \* struct lru_metadata / rand_metadata behind data
    allocated,     \* heap blocks currently allocated
    freeCount,     \* how many times free() was called on each block
    failed,        \* the allocation that returned NULL in the constructor
    nullDeref,     \* a NULL pointer returned by malloc was written through
    ret,           \* value returned by the last eviction_index call, else -1
    lastOp,        \* the call that produced this state
    track,         \* whether the run records the access history hist
    hist,          \* per set: resolved lines of cache_access, latest first
    releases,      \* number of cleanup calls so far
    twin,          \* order table of an instance of the other recency policy
                   \* built with the same arguments and given the same calls
    run            \* LRU: the set and the lines chosen by the latest miss
                   \* cycles (select, fill, access) that followed one another

vars == <<pc, kind, cache_system, data, metadata, allocated, freeCount,
          failed, nullDeref, ret, lastOp, track, hist, releases, twin, run>>

NoMeta == [num_sets |-> 0, associativity |-> 0, order |-> <<>>]
\* n = 2 when a cache_access or eviction_index call repeats the call before
\* it (same function, same arguments), else 1; runs that record the access
\* history do not record repeats
Op(o, s, t) ==
    [op |-> o, set |-> s, tag |-> t,
     n |-> IF /\ ~track
              /\ o \in {"access", "select"}
              /\ lastOp.op = o /\ lastOp.set = s /\ lastOp.tag = t
           THEN 2 ELSE 1]

\* ------------------------------------------------------------------- heap
FreeBlocks(bs) == [b \in Blocks |-> IF b \in bs THEN freeCount[b] + 1 ELSE freeCount[b]]

\* ------------------------------------------------------------ constructors
IdentityOrder(sets, associativity) ==
    [s \in 0..(sets - 1) |-> [i \in 0..(associativity - 1) |-> i]]

\* What a constructor leaves behind when the allocation of block f returns
\* NULL (f = NoBlk: every malloc succeeds).  A store through a NULL pointer
\* is undefined behaviour; the build (gcc -g without optimisation, see the
\* Makefile) emits the store, which faults on the unmapped page 0: the
\* process stops inside the constructor, pc = "crashed".
lru_replacement_policy_new(sets, associativity, f) ==
    IF f = PolicyBlk THEN
        \* if (!policy) return NULL;
        [pc |-> "nomem", data |-> "NULL", metadata |-> NoMeta,
         allocated |-> {}, freed |-> {}, nullDeref |-> FALSE]
    ELSE IF f = MetaBlk THEN
        \* if (!metadata) { free(policy); return NULL; }
        [pc |-> "nomem", data |-> "NULL", metadata |-> NoMeta,
         allocated |-> {}, freed |-> {PolicyBlk}, nullDeref |-> FALSE]
    ELSE IF f = OrderBlk THEN
        \* order == NULL is not tested: order[0] = malloc(..) stores through it
        [pc |-> "crashed", data |-> "NULL", metadata |-> NoMeta,
         allocated |-> {PolicyBlk, MetaBlk, RowBlk(0)}, freed |-> {}, nullDeref |-> TRUE]
    ELSE IF f # NoBlk /\ associativity > 0 THEN
        \* order[s] == NULL is not tested: order[s][0] = 0 stores through it
        [pc |-> "crashed", data |-> "NULL", metadata |-> NoMeta,
         allocated |-> {PolicyBlk, MetaBlk, OrderBlk} \cup RowsBelow(f[2]),
         freed |-> {}, nullDeref |-> TRUE]
    ELSE
        \* with associativity 0 the inner loop stores nothing, a NULL row is
        \* kept in the table
        [pc |-> "live", data |-> "metadata",
         metadata |-> [num_sets |-> sets, associativity |-> associativity,
                       order |-> IdentityOrder(sets, associativity)],
         allocated |-> ({PolicyBlk, MetaBlk, OrderBlk} \cup RowsBelow(sets)) \ {f},
         freed |-> {}, nullDeref |-> FALSE]

lru_prefer_clean_replacement_policy_new(sets, associativity, f) ==
    IF f = PolicyBlk THEN
        \* if (!policy) return NULL;
        [pc |-> "nomem", data |-> "NULL", metadata |-> NoMeta,
         allocated |-> {}, freed |-> {}, nullDeref |-> FALSE]
    ELSE IF f = MetaBlk THEN
        \* if (!metadata) { free(policy); return NULL; }
        [pc |-> "nomem", data |-> "NULL", metadata |-> NoMeta,
         allocated |-> {}, freed |-> {PolicyBlk}, nullDeref |-> FALSE]
    ELSE IF f = OrderBlk THEN
        \* order == NULL is not tested: order[0] = malloc(..) stores through it
        [pc |-> "crashed", data |-> "NULL", metadata |-> NoMeta,
         allocated |-> {PolicyBlk, MetaBlk, RowBlk(0)}, freed |-> {}, nullDeref |-> TRUE]
    ELSE IF f # NoBlk /\ associativity > 0 THEN
        \* order[s] == NULL is not tested: order[s][0] = 0 stores through it
        [pc |-> "crashed", data |-> "NULL", metadata |-> NoMeta,
         allocated |-> {PolicyBlk, MetaBlk, OrderBlk} \cup RowsBelow(f[2]),
         freed |-> {}, nullDeref |-> TRUE]
    ELSE
        \* with associativity 0 the inner loop stores nothing, a NULL row is
        \* kept in the table
        [pc |-> "live", data |-> "metadata",
         metadata |-> [num_sets |-> sets, associativity |-> associativity,
                       order |-> IdentityOrder(sets, associativity)],
         allocated |-> ({PolicyBlk, MetaBlk, OrderBlk} \cup RowsBelow(sets)) \ {f},
         freed |-> {}, nullDeref |-> FALSE]

rand_replacement_policy_new(sets, associativity, f) ==
    IF f = PolicyBlk THEN
        \* if (!policy) return NULL;
        [pc |-> "nomem", data |-> "NULL", metadata |-> NoMeta,
         allocated |-> {}, freed |-> {}, nullDeref |-> FALSE]
    ELSE IF f = MetaBlk THEN
        \* if (!md) { free(policy); return NULL; }
        [pc |-> "nomem", data |-> "NULL", metadata |-> NoMeta,
         allocated |-> {}, freed |-> {PolicyBlk}, nullDeref |-> FALSE]
    ELSE
        [pc |-> "live", data |-> "metadata",
         metadata |-> [num_sets |-> sets, associativity |-> associativity,
                       order |-> <<>>],
         allocated |-> {PolicyBlk, MetaBlk}, freed |-> {}, nullDeref |-> FALSE]

\* ------------------------------------------------------- cache line access
\* cache_system->cache_lines[set_idx * associativity + i]
Line(cs, set_idx, i) == cs.cache_lines[set_idx * cs.associativity + i]

\* variant: the scan goes on after a match (no break), keeping the last one
RECURSIVE ScanLines_NoBreak(_, _, _, _)
ScanLines_NoBreak(cs, set_idx, tag, i) ==
    IF i >= cs.associativity THEN -1
    ELSE LET later == ScanLines_NoBreak(cs, set_idx, tag, i + 1)
         IN IF later >= 0 THEN later
            ELSE IF Line(cs, set_idx, i).tag = tag /\ Line(cs, set_idx, i).status # INVALID
                 THEN i
                 ELSE -1

\* variant: the status of the line is not tested
RECURSIVE ScanLines_IgnoreStatus(_, _, _, _)
ScanLines_IgnoreStatus(cs, set_idx, tag, i) ==
    IF i >= cs.associativity THEN -1
    ELSE IF Line(cs, set_idx, i).tag = tag
         THEN i
         ELSE ScanLines_IgnoreStatus(cs, set_idx, tag, i + 1)

\* for (i = from; i < associativity; i++) if (tag matches && status != INVALID)
\* { accessed_line_idx = i; break; }   -- -1 when the loop finds nothing
RECURSIVE ScanLines(_, _, _, _)
ScanLines(cs, set_idx, tag, i) ==
    IF i >= cs.associativity THEN -1
    ELSE IF Line(cs, set_idx, i).tag = tag /\ Line(cs, set_idx, i).status # INVALID
         THEN i
         ELSE ScanLines(cs, set_idx, tag, i + 1)

\* for (i = from; i < md->associativity; i++) if (order[set_idx][i] == idx)
\* { p = i; break; }   -- -1 when the loop finds nothing
RECURSIVE ScanOrder(_, _, _, _)
ScanOrder(row, associativity, idx, i) ==
    IF i >= associativity THEN -1
    ELSE IF row[i] = idx THEN i
         ELSE ScanOrder(row, associativity, idx, i + 1)

\* variant: the shifting loop is missing
ShiftTowardTail_NoShift(row, i) == row

\* variant: the head entry is moved to position p instead of the shift
ShiftTowardTail_Swap(row, i) == [row EXCEPT ![i] = row[0]]

\* for (int i = p; i > 0; i--) order[set_idx][i] = order[set_idx][i - 1];
RECURSIVE ShiftTowardTail(_, _)
ShiftTowardTail(row, i) ==
    IF i > 0 THEN ShiftTowardTail([row EXCEPT ![i] = row[i - 1]], i - 1)
    ELSE row

\* variant: the head (MRU) entry is returned
lru_eviction_index_Head(md, cs, set_idx) ==
    md.order[set_idx][0]

\* variant: the entry before the tail is returned
lru_eviction_index_NextToTail(md, cs, set_idx) ==
    md.order[set_idx][IF md.associativity >= 2 THEN md.associativity - 2 ELSE 0]

\* ---------------------------------------------------------------- LRU
\* returns metadata->order[set_idx][associativity - 1]
lru_eviction_index(md, cs, set_idx) ==
    md.order[set_idx][md.associativity - 1]

\* variant: the accessed line is moved to the tail, the entries behind it
\* one place toward the head
lru_cache_access_ToTail(md, cs, set_idx, tag) ==
    LET accessed_line_idx == ScanLines(cs, set_idx, tag, 0) IN
    IF accessed_line_idx < 0 THEN md.order
    ELSE LET p == ScanOrder(md.order[set_idx], md.associativity, accessed_line_idx, 0) IN
         IF p < 0 THEN md.order
         ELSE [md.order EXCEPT ![set_idx] =
                  [i \in DOMAIN @ |->
                      IF i < p THEN @[i]
                      ELSE IF i < md.associativity - 1 THEN @[i + 1]
                      ELSE accessed_line_idx]]

\* variant: the new row is stored into the table of set 0
lru_cache_access_Row0(md, cs, set_idx, tag) ==
    LET accessed_line_idx == ScanLines(cs, set_idx, tag, 0) IN
    IF accessed_line_idx < 0 THEN md.order
    ELSE LET p == ScanOrder(md.order[set_idx], md.associativity, accessed_line_idx, 0) IN
         IF p < 0 THEN md.order
         ELSE [md.order EXCEPT ![0] =
                  [ShiftTowardTail(md.order[set_idx], p) EXCEPT ![0] = accessed_line_idx]]

\* variant: the order table is left as it was
lru_cache_access_Stale(md, cs, set_idx, tag) == md.order

\* returns the order table after the call
lru_cache_access(md, cs, set_idx, tag) ==
    LET accessed_line_idx == ScanLines(cs, set_idx, tag, 0) IN
    IF accessed_line_idx < 0 THEN md.order
    ELSE LET p == ScanOrder(md.order[set_idx], md.associativity, accessed_line_idx, 0) IN
         IF p < 0 THEN md.order
         ELSE [md.order EXCEPT ![set_idx] =
                  [ShiftTowardTail(md.order[set_idx], p) EXCEPT ![0] = accessed_line_idx]]

\* ------------------------------------------------------- LRU_PREFER_CLEAN
\* for (int i = assoc - 1; i >= 0; i--) if (line order[i] is EXCLUSIVE) return;
\* after the loop: return md->order[set_idx][assoc - 1]
RECURSIVE ScanFromTail(_, _, _, _)
ScanFromTail(md, cs, set_idx, i) ==
    IF i < 0 THEN md.order[set_idx][md.associativity - 1]
    ELSE LET line_idx_in_set == md.order[set_idx][i]
             global_idx == set_idx * md.associativity + line_idx_in_set
         IN IF cs.cache_lines[global_idx].status = EXCLUSIVE
            THEN line_idx_in_set
            ELSE ScanFromTail(md, cs, set_idx, i - 1)

\* variant: the scan for a clean line runs from the head (MRU) to the tail
RECURSIVE ScanFromHead(_, _, _, _)
ScanFromHead(md, cs, set_idx, i) ==
    IF i >= md.associativity THEN md.order[set_idx][md.associativity - 1]
    ELSE LET line_idx_in_set == md.order[set_idx][i]
             global_idx == set_idx * md.associativity + line_idx_in_set
         IN IF cs.cache_lines[global_idx].status = EXCLUSIVE
            THEN line_idx_in_set
            ELSE ScanFromHead(md, cs, set_idx, i + 1)

lru_prefer_clean_eviction_index_MruFirst(md, cs, set_idx) ==
    ScanFromHead(md, cs, set_idx, 0)

lru_prefer_clean_eviction_index(md, cs, set_idx) ==
    ScanFromTail(md, cs, set_idx, md.associativity - 1)

\* variant: the shift runs over the whole row and the tail entry comes to
\* the head, wherever the accessed line was found
lru_prefer_clean_cache_access_Rotate(md, cs, set_idx, tag) ==
    LET accessed_line_idx == ScanLines(cs, set_idx, tag, 0) IN
    IF accessed_line_idx < 0 THEN md.order
    ELSE [md.order EXCEPT ![set_idx] =
             [i \in DOMAIN @ |-> @[(i + md.associativity - 1) % md.associativity]]]

\* variant: the order table is left as it was
lru_prefer_clean_cache_access_NoMove(md, cs, set_idx, tag) == md.order

lru_prefer_clean_cache_access(md, cs, set_idx, tag) ==
    LET accessed_line_idx == ScanLines(cs, set_idx, tag, 0) IN
    IF accessed_line_idx < 0 THEN md.order
    ELSE LET p == ScanOrder(md.order[set_idx], md.associativity, accessed_line_idx, 0) IN
         IF p < 0 THEN md.order
         ELSE [md.order EXCEPT ![set_idx] =
                  [ShiftTowardTail(md.order[set_idx], p) EXCEPT ![0] = accessed_line_idx]]

\* ------------------------------------------------------------------ RAND
RandWords == 0..(2^RandBits - 1)

\* the values randombytes_uniform(upper_bound) can return: 0 when
\* upper_bound < 2, else r % upper_bound for a random word r that is not
\* below min = (2^w - upper_bound) % upper_bound
randombytes_uniform(upper_bound) ==
    IF upper_bound < 2 THEN {0}
    ELSE LET min == (2^RandBits - upper_bound) % upper_bound
         IN {r % upper_bound : r \in {w \in RandWords : w >= min}}

\* the random words for which randombytes_uniform(upper_bound) returns v
randombytes_uniform_words(upper_bound, v) ==
    IF upper_bound < 2 THEN {r \in RandWords : v = 0}
    ELSE LET min == (2^RandBits - upper_bound) % upper_bound
         IN {r \in RandWords : r >= min /\ r % upper_bound = v}

\* variant: the upper bound is taken inclusive
rand_eviction_index_Inclusive(md, cs, set_idx) ==
    randombytes_uniform(md.associativity + 1)

\* the set of values the call can return
rand_eviction_index(md, cs, set_idx) ==
    randombytes_uniform(md.associativity)

\* the same function in src/replacement_policies.c: the values
\* rand() % assoc can return; rand() yields a word of 0..RAND_MAX, RAND_MAX + 1
\* a power of two (scaled to 2^RandBits here)
rand_eviction_index_modulo(md, cs, set_idx) ==
    {r % md.associativity : r \in RandWords}

\* the rand() results for which rand() % assoc is v
rand_modulo_words(md, v) ==
    {r \in RandWords : r % md.associativity = v}

\* variant: the call overwrites the stored associativity
rand_cache_access_Shrinking(md, cs, set_idx, tag) ==
    [md EXCEPT !.associativity = 1]

\* returns the (unchanged) metadata
rand_cache_access(md, cs, set_idx, tag) == md

\* ---------------------------------------------------------------- cleanup
\* variant: data is not reset to NULL after the frees
lru_replacement_policy_cleanup_KeepData(d, md) ==
    IF d = "NULL" THEN [data |-> d, metadata |-> md, freed |-> {}]
    ELSE [data |-> d, metadata |-> md,
          freed |-> RowsBelow(md.num_sets) \cup {OrderBlk, MetaBlk}]

\* the heap and the policy's data pointer after a cleanup call
lru_replacement_policy_cleanup(d, md) ==
    IF d = "NULL" THEN [data |-> d, metadata |-> md, freed |-> {}]
    ELSE [data |-> "NULL", metadata |-> NoMeta,
          freed |-> RowsBelow(md.num_sets) \cup {OrderBlk, MetaBlk}]

lru_prefer_clean_replacement_policy_cleanup(d, md) ==
    IF d = "NULL" THEN [data |-> d, metadata |-> md, freed |-> {}]
    ELSE [data |-> "NULL", metadata |-> NoMeta,
          freed |-> RowsBelow(md.num_sets) \cup {OrderBlk, MetaBlk}]

rand_replacement_policy_cleanup(d, md) ==
    IF d = "NULL" THEN [data |-> d, metadata |-> md, freed |-> {}]
    ELSE [data |-> "NULL", metadata |-> NoMeta, freed |-> {MetaBlk}]

\* ------------------------------------------------------------------ ghost
\* the line a (set, tag) pair resolves to: the first valid line holding the
\* tag, -1 when there is none
Matches(cs, set_idx, tag) ==
    {i \in 0..(cs.associativity - 1) :
        /\ Line(cs, set_idx, i).tag = tag
        /\ Line(cs, set_idx, i).status # INVALID}

Resolved(cs, set_idx, tag) ==
    IF Matches(cs, set_idx, tag) = {} THEN -1
    ELSE CHOOSE i \in Matches(cs, set_idx, tag) :
            \A j \in Matches(cs, set_idx, tag) : i <= j

Touch(h, set_idx, i) ==
    IF i < 0 THEN h
    ELSE [h EXCEPT ![set_idx] = <<i>> \o SelectSeq(h[set_idx], LAMBDA x : x # i)]

\* the last n entries of a sequence
LastN(q, n) == IF Len(q) <= n THEN q ELSE SubSeq(q, Len(q) - n + 1, Len(q))

\* a cache_access that ends a miss cycle (it follows the fill of the line the
\* eviction_index call chose, with the filled tag) adds that line to the run
\* when the cycle before it was on the same set, and else starts a run; the
\* last `associativity` lines of a run are kept; any other cache_access ends
\* the run
NoRun == [set |-> -1, lines |-> <<>>]

Cycle(r, set_idx, tag) ==
    IF lastOp.op = "fill" /\ lastOp.set = set_idx /\ lastOp.tag = tag
    THEN [set |-> set_idx,
          lines |-> LastN(Append(IF r.set = set_idx THEN r.lines ELSE <<>>, ret),
                          cache_system.associativity)]
    ELSE NoRun

\* ------------------------------------------------------------------- Init
EmptyCache(sets, associativity) ==
    [num_sets |-> sets, associativity |-> associativity,
     cache_lines |-> [g \in 0..(sets * associativity - 1) |->
                        [tag |-> 0, status |-> INVALID]]]

InitWith(kinds, tr) ==
    /\ pc = "new"
    /\ kind \in kinds
    /\ track = tr
    /\ \E g \in Geometries : cache_system = EmptyCache(g[1], g[2])
    /\ data = "NULL"
    /\ metadata = NoMeta
    /\ allocated = {}
    /\ freeCount = [b \in Blocks |-> 0]
    /\ failed = NoBlk
    /\ nullDeref = FALSE
    /\ ret = -1
    /\ lastOp = [op |-> "none", set |-> -1, tag |-> -1, n |-> 1]
    /\ hist = <<>>
    /\ releases = 0
    /\ twin = <<>>
    /\ run = NoRun

Init == InitWith(Kinds, FALSE)

\* ------------------------------------------------------------ construction
Construct(o, f) ==
    /\ pc' = o.pc
    /\ data' = o.data
    /\ metadata' = o.metadata
    /\ allocated' = o.allocated
    /\ nullDeref' = o.nullDeref
    /\ failed' = f
    /\ hist' = IF o.pc = "live" /\ track
               THEN [s \in 0..(cache_system.num_sets - 1) |-> <<>>]
               ELSE <<>>
    /\ lastOp' = Op("new", -1, -1)
    /\ freeCount' = FreeBlocks(o.freed)
    /\ twin' = IF o.pc = "live" /\ kind = LRU
               THEN lru_prefer_clean_replacement_policy_new(
                        cache_system.num_sets, cache_system.associativity, f).metadata.order
               ELSE IF o.pc = "live" /\ kind = LRU_PREFER_CLEAN
               THEN lru_replacement_policy_new(
                        cache_system.num_sets, cache_system.associativity, f).metadata.order
               ELSE <<>>
    /\ run' = NoRun
    /\ UNCHANGED <<kind, cache_system, ret, track, releases>>

LruNew ==
    /\ pc = "new"
    /\ kind = LRU
    /\ \E f \in {NoBlk, PolicyBlk, MetaBlk, OrderBlk} \cup RowsBelow(cache_system.num_sets) :
          Construct(lru_replacement_policy_new(cache_system.num_sets,
                                               cache_system.associativity, f), f)

LruPreferCleanNew ==
    /\ pc = "new"
    /\ kind = LRU_PREFER_CLEAN
    /\ \E f \in {NoBlk, PolicyBlk, MetaBlk, OrderBlk} \cup RowsBelow(cache_system.num_sets) :
          Construct(lru_prefer_clean_replacement_policy_new(cache_system.num_sets,
                                               cache_system.associativity, f), f)

RandNew ==
    /\ pc = "new"
    /\ kind = RAND
    /\ \E f \in {NoBlk, PolicyBlk, MetaBlk} :
          Construct(rand_replacement_policy_new(cache_system.num_sets,
                                                cache_system.associativity, f), f)

\* ------------------------------------------------------------ cache_access
SetIndexes == 0..(cache_system.num_sets - 1)

\* variant: the call also marks the accessed line MODIFIED
LruAccess_Marking(set_idx, tag) ==
    /\ pc = "live"
    /\ kind = LRU
    /\ metadata' = [metadata EXCEPT
                      !.order = lru_cache_access(metadata, cache_system, set_idx, tag)]
    /\ cache_system' =
          IF Resolved(cache_system, set_idx, tag) < 0 THEN cache_system
          ELSE [cache_system EXCEPT
                  !.cache_lines[set_idx * cache_system.associativity
                                + Resolved(cache_system, set_idx, tag)].status = MODIFIED]
    /\ hist' = IF track THEN Touch(hist, set_idx, Resolved(cache_system, set_idx, tag))
               ELSE hist
    /\ ret' = -1
    /\ lastOp' = Op("access", set_idx, tag)
    /\ twin' = lru_prefer_clean_cache_access([metadata EXCEPT !.order = twin],
                                             cache_system, set_idx, tag)
    /\ run' = Cycle(run, set_idx, tag)
    /\ UNCHANGED <<pc, kind, data, allocated, freeCount, failed,
                   nullDeref, track, releases>>

LruAccess(set_idx, tag) ==
    /\ pc = "live"
    /\ kind = LRU
    /\ metadata' = [metadata EXCEPT
                      !.order = lru_cache_access(metadata, cache_system, set_idx, tag)]
    /\ hist' = IF track THEN Touch(hist, set_idx, Resolved(cache_system, set_idx, tag))
               ELSE hist
    /\ ret' = -1
    /\ lastOp' = Op("access", set_idx, tag)
    /\ twin' = lru_prefer_clean_cache_access([metadata EXCEPT !.order = twin],
                                             cache_system, set_idx, tag)
    /\ run' = Cycle(run, set_idx, tag)
    /\ UNCHANGED <<pc, kind, cache_system, data, allocated, freeCount, failed,
                   nullDeref, track, releases>>

LruPreferCleanAccess(set_idx, tag) ==
    /\ pc = "live"
    /\ kind = LRU_PREFER_CLEAN
    /\ metadata' = [metadata EXCEPT
                      !.order = lru_prefer_clean_cache_access(metadata, cache_system,
                                                              set_idx, tag)]
    /\ ret' = -1
    /\ lastOp' = Op("access", set_idx, tag)
    /\ twin' = lru_cache_access([metadata EXCEPT !.order = twin],
                                cache_system, set_idx, tag)
    /\ UNCHANGED <<pc, kind, cache_system, data, allocated, freeCount, failed,
                   nullDeref, track, hist, releases, run>>

RandAccess(set_idx, tag) ==
    /\ pc = "live"
    /\ kind = RAND
    /\ metadata' = rand_cache_access(metadata, cache_system, set_idx, tag)
    /\ ret' = -1
    /\ lastOp' = Op("access", set_idx, tag)
    /\ UNCHANGED <<pc, kind, cache_system, data, allocated, freeCount, failed,
                   nullDeref, track, twin, run, hist, releases>>

\* ---------------------------------------------------------- eviction_index
\* variant: the call also moves the chosen line to the head of the order
LruEvict_Rotating(set_idx) ==
    /\ pc = "live"
    /\ kind = LRU
    /\ ret' = lru_eviction_index(metadata, cache_system, set_idx)
    /\ metadata' = [metadata EXCEPT !.order[set_idx] =
                      [i \in DOMAIN @ |-> @[(i + metadata.associativity - 1)
                                            % metadata.associativity]]]
    /\ lastOp' = Op("select", set_idx, -1)
    /\ UNCHANGED <<pc, kind, cache_system, data, allocated, freeCount,
                   failed, nullDeref, track, twin, run, hist, releases>>

LruEvict(set_idx) ==
    /\ pc = "live"
    /\ kind = LRU
    /\ ret' = lru_eviction_index(metadata, cache_system, set_idx)
    /\ lastOp' = Op("select", set_idx, -1)
    /\ UNCHANGED <<pc, kind, cache_system, data, metadata, allocated, freeCount,
                   failed, nullDeref, track, twin, run, hist, releases>>

\* variant: the call also swaps the chosen line with the head of the order
LruPreferCleanEvict_Promoting(set_idx) ==
    /\ pc = "live"
    /\ kind = LRU_PREFER_CLEAN
    /\ ret' = lru_prefer_clean_eviction_index(metadata, cache_system, set_idx)
    /\ metadata' = [metadata EXCEPT !.order[set_idx] =
                      [i \in DOMAIN @ |->
                          IF i = 0 THEN ret'
                          ELSE IF @[i] = ret' THEN @[0] ELSE @[i]]]
    /\ lastOp' = Op("select", set_idx, -1)
    /\ UNCHANGED <<pc, kind, cache_system, data, allocated, freeCount,
                   failed, nullDeref, track, twin, run, hist, releases>>

LruPreferCleanEvict(set_idx) ==
    /\ pc = "live"
    /\ kind = LRU_PREFER_CLEAN
    /\ ret' = lru_prefer_clean_eviction_index(metadata, cache_system, set_idx)
    /\ lastOp' = Op("select", set_idx, -1)
    /\ UNCHANGED <<pc, kind, cache_system, data, metadata, allocated, freeCount,
                   failed, nullDeref, track, twin, run, hist, releases>>

RandEvict(set_idx) ==
    /\ pc = "live"
    /\ kind = RAND
    /\ ret' \in rand_eviction_index(metadata, cache_system, set_idx)
    /\ lastOp' = Op("select", set_idx, -1)
    /\ UNCHANGED <<pc, kind, cache_system, data, metadata, allocated, freeCount,
                   failed, nullDeref, track, twin, run, hist, releases>>

\* rand_eviction_index of src/replacement_policies.c
RandEvictModulo(set_idx) ==
    /\ pc = "live"
    /\ kind = RAND
    /\ metadata.associativity > 0
    /\ ret' \in rand_eviction_index_modulo(metadata, cache_system, set_idx)
    /\ lastOp' = Op("select", set_idx, -1)
    /\ UNCHANGED <<pc, kind, cache_system, data, metadata, allocated, freeCount,
                   failed, nullDeref, track, twin, run, hist, releases>>

\* ----------------------------------------------------------------- cleanup
Release(o) ==
    /\ releases < MaxReleases
    /\ releases' = releases + 1
    /\ pc' = "released"
    /\ data' = o.data
    /\ metadata' = o.metadata
    /\ allocated' = allocated \ o.freed
    /\ freeCount' = FreeBlocks(o.freed)
    /\ hist' = <<>>
    /\ ret' = -1
    /\ lastOp' = Op("release", -1, -1)
    /\ twin' = <<>>
    /\ run' = NoRun
    /\ UNCHANGED <<kind, cache_system, failed, nullDeref, track>>

LruCleanup ==
    /\ pc \in {"live", "released"}
    /\ kind = LRU
    /\ Release(lru_replacement_policy_cleanup(data, metadata))

LruPreferCleanCleanup ==
    /\ pc \in {"live", "released"}
    /\ kind = LRU_PREFER_CLEAN
    /\ Release(lru_prefer_clean_replacement_policy_cleanup(data, metadata))

RandCleanup ==
    /\ pc \in {"live", "released"}
    /\ kind = RAND
    /\ Release(rand_replacement_policy_cleanup(data, metadata))

\* ------------------------------------------------- the owning cache level
\* the cache level writes one field of one line (fill, invalidation, status
\* change); a fill is a tag write followed by a status write
Fields == {[tag |-> t] : t \in Tags} \cup {[status |-> st] : st \in Statuses}

CacheInstall(g, f) ==
    /\ pc = "live"
    /\ cache_system' = [cache_system EXCEPT !.cache_lines[g] = f @@ @]
    /\ cache_system' # cache_system
    /\ ret' = -1
    /\ lastOp' = Op("install", -1, -1)
    /\ UNCHANGED <<pc, kind, data, metadata, allocated, freeCount, failed,
                   nullDeref, track, twin, run, hist, releases>>

Next ==
    \/ LruNew
    \/ LruPreferCleanNew
    \/ RandNew
    \/ \E s \in SetIndexes, t \in Tags : LruAccess(s, t)
    \/ \E s \in SetIndexes, t \in Tags : LruPreferCleanAccess(s, t)
    \/ \E s \in SetIndexes, t \in Tags : RandAccess(s, t)
    \/ \E s \in SetIndexes : LruEvict(s)
    \/ \E s \in SetIndexes : LruPreferCleanEvict(s)
    \/ \E s \in SetIndexes : RandEvict(s)
    \/ \E s \in SetIndexes : RandEvictModulo(s)
    \/ LruCleanup
    \/ LruPreferCleanCleanup
    \/ RandCleanup
    \/ \E g \in DOMAIN cache_system.cache_lines, f \in Fields : CacheInstall(g, f)

Spec == Init /\ [][Next]_vars

\* the LRU policy alone, with the access history recorded
InitHist == InitWith({LRU}, TRUE)

NextHist ==
    \/ LruNew
    \/ \E s \in SetIndexes, t \in Tags : LruAccess(s, t)
    \/ \E s \in SetIndexes : LruEvict(s)
    \/ LruCleanup
    \/ \E g \in DOMAIN cache_system.cache_lines, f \in Fields : CacheInstall(g, f)

SpecHist == InitHist /\ [][NextHist]_vars

\* ------------------------------------------- calls outside the contract
\* the geometries a caller can pass to a constructor: also associativity 0
EdgeGeometries ==
    {g \in (1..MaxSets) \X (0..MaxAssoc) : g[1] * g[2] <= MaxLines}

InitEdge ==
    /\ pc = "new"
    /\ kind \in Kinds
    /\ track = FALSE
    /\ \E g \in EdgeGeometries : cache_system = EmptyCache(g[1], g[2])
    /\ data = "NULL"
    /\ metadata = NoMeta
    /\ allocated = {}
    /\ freeCount = [b \in Blocks |-> 0]
    /\ failed = NoBlk
    /\ nullDeref = FALSE
    /\ ret = -1
    /\ lastOp = [op |-> "none", set |-> -1, tag |-> -1, n |-> 1]
    /\ hist = <<>>
    /\ releases = 0
    /\ twin = <<>>
    /\ run = NoRun

\* cleanup(NULL): the caller passes on the NULL a failed constructor returned
\* (pc = "nomem").  `metadata = replacement_policy->data` is the first
\* statement of both LRU cleanups and comes before any test: a load from
\* page 0, which faults in the unoptimised build.
LruCleanupNull ==
    /\ pc = "nomem"
    /\ kind = LRU
    /\ releases < MaxReleases
    /\ releases' = releases + 1
    /\ pc' = "crashed"
    /\ ret' = -1
    /\ lastOp' = Op("release", -1, -1)
    /\ UNCHANGED <<kind, cache_system, data, metadata, allocated, freeCount,
                   failed, nullDeref, track, twin, run, hist>>

LruPreferCleanCleanupNull ==
    /\ pc = "nomem"
    /\ kind = LRU_PREFER_CLEAN
    /\ releases < MaxReleases
    /\ releases' = releases + 1
    /\ pc' = "crashed"
    /\ ret' = -1
    /\ lastOp' = Op("release", -1, -1)
    /\ UNCHANGED <<kind, cache_system, data, metadata, allocated, freeCount,
                   failed, nullDeref, track, twin, run, hist>>

\* if (!replacement_policy || !replacement_policy->data) return;
RandCleanupNull ==
    /\ pc = "nomem"
    /\ kind = RAND
    /\ releases < MaxReleases
    /\ releases' = releases + 1
    /\ ret' = -1
    /\ lastOp' = Op("release", -1, -1)
    /\ UNCHANGED <<pc, kind, cache_system, data, metadata, allocated, freeCount,
                   failed, nullDeref, track, twin, run, hist>>

\* a call is out of range when its set index is not below num_sets or the
\* policy was built with associativity 0
OutOfRange(set_idx) ==
    set_idx >= cache_system.num_sets \/ cache_system.associativity = 0

EdgeSetIndexes == 0..cache_system.num_sets

\* the values a load from outside the tables can yield: any word, here an
\* index in range or the first one out of range
Garbage == 0..MaxAssoc

\* order[set_idx][associativity - 1] with set_idx >= num_sets reads a row
\* pointer behind the pointer array; with associativity 0 it reads entry
\* UINT32_MAX of the row.  No test comes before the load: it faults, or it
\* returns whatever the memory holds.
LruEvictOutOfRange(set_idx) ==
    /\ pc = "live"
    /\ kind = LRU
    /\ OutOfRange(set_idx)
    /\ \/ pc' = "crashed" /\ ret' = -1
       \/ pc' = "live" /\ ret' \in Garbage
    /\ lastOp' = Op("select", set_idx, -1)
    /\ UNCHANGED <<kind, cache_system, data, metadata, allocated, freeCount,
                   failed, nullDeref, track, twin, run, hist, releases>>

\* the scan loads order[set_idx][i] and cache_lines[set_idx * assoc + ..]
\* behind the tables; with associativity 0 the loop is skipped (int i = -1)
\* and the fall-back loads order[set_idx][UINT32_MAX]
LruPreferCleanEvictOutOfRange(set_idx) ==
    /\ pc = "live"
    /\ kind = LRU_PREFER_CLEAN
    /\ OutOfRange(set_idx)
    /\ \/ pc' = "crashed" /\ ret' = -1
       \/ pc' = "live" /\ ret' \in Garbage
    /\ lastOp' = Op("select", set_idx, -1)
    /\ UNCHANGED <<kind, cache_system, data, metadata, allocated, freeCount,
                   failed, nullDeref, track, twin, run, hist, releases>>

\* with associativity 0 no loop body runs and the call returns; otherwise
\* set_lines[i] is read behind cache_lines: the load faults, or nothing
\* there matches and the call returns, or something matches and the shift
\* stores through the row pointer read behind the pointer array
\* (pc = "corrupt": memory outside the tables is overwritten)
LruAccessOutOfRange(set_idx, tag) ==
    /\ pc = "live"
    /\ kind = LRU
    /\ OutOfRange(set_idx)
    /\ IF cache_system.associativity = 0
       THEN pc' = "live"
       ELSE pc' \in {"crashed", "live", "corrupt"}
    /\ ret' = -1
    /\ lastOp' = Op("access", set_idx, tag)
    /\ UNCHANGED <<kind, cache_system, data, metadata, allocated, freeCount,
                   failed, nullDeref, track, twin, run, hist, releases>>

LruPreferCleanAccessOutOfRange(set_idx, tag) ==
    /\ pc = "live"
    /\ kind = LRU_PREFER_CLEAN
    /\ OutOfRange(set_idx)
    /\ IF cache_system.associativity = 0
       THEN pc' = "live"
       ELSE pc' \in {"crashed", "live", "corrupt"}
    /\ ret' = -1
    /\ lastOp' = Op("access", set_idx, tag)
    /\ UNCHANGED <<kind, cache_system, data, metadata, allocated, freeCount,
                   failed, nullDeref, track, twin, run, hist, releases>>

\* rand() % assoc with assoc = 0 (src/replacement_policies.c): an integer
\* division by zero, which traps (SIGFPE) or yields 0, by the target
RandEvictModuloZero(set_idx) ==
    /\ pc = "live"
    /\ kind = RAND
    /\ metadata.associativity = 0
    /\ \/ pc' = "crashed" /\ ret' = -1
       \/ pc' = "live" /\ ret' = 0
    /\ lastOp' = Op("select", set_idx, -1)
    /\ UNCHANGED <<kind, cache_system, data, metadata, allocated, freeCount,
                   failed, nullDeref, track, twin, run, hist, releases>>

\* rand_eviction_index and rand_cache_access read neither set_idx nor the
\* cache: the calls of the contract also model the ones out of range
NextEdge ==
    \/ LruNew
    \/ LruPreferCleanNew
    \/ RandNew
    \/ LruCleanupNull
    \/ LruPreferCleanCleanupNull
    \/ RandCleanupNull
    \/ \E s \in EdgeSetIndexes : LruEvictOutOfRange(s)
    \/ \E s \in EdgeSetIndexes : LruPreferCleanEvictOutOfRange(s)
    \/ \E s \in EdgeSetIndexes, t \in Tags : LruAccessOutOfRange(s, t)
    \/ \E s \in EdgeSetIndexes, t \in Tags : LruPreferCleanAccessOutOfRange(s, t)
    \/ \E s \in EdgeSetIndexes : OutOfRange(s) /\ RandEvict(s)
    \/ \E s \in EdgeSetIndexes : OutOfRange(s) /\ RandEvictModulo(s)
    \/ \E s \in EdgeSetIndexes : RandEvictModuloZero(s)
    \/ \E s \in EdgeSetIndexes, t \in Tags : OutOfRange(s) /\ RandAccess(s, t)

SpecEdge == InitEdge /\ [][NextEdge]_vars

\* ------------------------------------------------- misses on full sets
\* a cache whose sets are full: the lines of a set hold distinct tags.  The
\* functions only compare the probed tag with the tags of the lines (see
\* Tags), so the references are taken to carry two tags per line: local line
\* i holds tag i or tag i + associativity, and a miss that evicts line i
\* brings the one of the two that the line does not hold.
MissTags == 0..(2 * cache_system.associativity - 1)

FullCaches(sets, associativity) ==
    {[num_sets |-> sets, associativity |-> associativity,
      cache_lines |-> [g \in 0..(sets * associativity - 1) |->
                         [tag |-> g % associativity, status |-> st[g]]]] :
        st \in [0..(sets * associativity - 1) -> Statuses \ {INVALID}]}

InitMiss ==
    /\ pc = "new"
    /\ kind \in {LRU, LRU_PREFER_CLEAN}
    /\ track = TRUE
    /\ \E g \in Geometries : cache_system \in FullCaches(g[1], g[2])
    /\ data = "NULL"
    /\ metadata = NoMeta
    /\ allocated = {}
    /\ freeCount = [b \in Blocks |-> 0]
    /\ failed = NoBlk
    /\ nullDeref = FALSE
    /\ ret = -1
    /\ lastOp = [op |-> "none", set |-> -1, tag |-> -1, n |-> 1]
    /\ hist = <<>>
    /\ releases = 0
    /\ twin = <<>>
    /\ run = NoRun

\* the cache level calls cache_access for a tag a line of the set holds (a
\* hit, or step (3) of a miss).
\* step (2) of a miss that needs an eviction: after eviction_index(set)
\* returned ret, the cache level installs the missing tag, which no line of
\* the set holds, with a valid status into local line ret of the set
MissFill(tag, st) ==
    /\ pc = "live"
    /\ lastOp.op = "select"
    /\ st # INVALID
    /\ tag % cache_system.associativity = ret
    /\ \A i \in 0..(cache_system.associativity - 1) :
          /\ Line(cache_system, lastOp.set, i).status # INVALID
          /\ Line(cache_system, lastOp.set, i).tag # tag
    /\ cache_system' = [cache_system EXCEPT
          !.cache_lines[lastOp.set * cache_system.associativity + ret] =
              [tag |-> tag, status |-> st]]
    /\ lastOp' = Op("fill", lastOp.set, tag)
    /\ UNCHANGED <<pc, kind, data, metadata, allocated, freeCount, failed,
                   nullDeref, ret, track, hist, releases, twin, run>>

NextMiss ==
    \/ LruNew
    \/ LruPreferCleanNew
    \/ \E s \in SetIndexes, t \in MissTags :
          Resolved(cache_system, s, t) >= 0 /\ LruAccess(s, t)
    \/ \E s \in SetIndexes, t \in MissTags :
          Resolved(cache_system, s, t) >= 0 /\ LruPreferCleanAccess(s, t)
    \/ \E s \in SetIndexes : LruEvict(s)
    \/ \E s \in SetIndexes : LruPreferCleanEvict(s)
    \/ \E t \in MissTags, st \in Statuses : MissFill(t, st)

SpecMiss == InitMiss /\ [][NextMiss]_vars

\* ================================================================ claims
Recency == {LRU, LRU_PREFER_CLEAN}
Live == pc = "live"
Assoc == metadata.associativity
Order(s) == metadata.order[s]
Identity == [i \in 0..(Assoc - 1) |-> i]
Reversed == [i \in 0..(Assoc - 1) |-> Assoc - 1 - i]
StatusOf(s, i) == Line(cache_system, s, i).status

\* C1: for LRU and LRU-Prefer-Clean, after construction and after every
\* record_access, every set's order table is a permutation of
\* [0, associativity): each local line index appears exactly once.
C1_Permutation ==
    (Live /\ kind \in Recency) =>
        /\ DOMAIN metadata.order = 0..(metadata.num_sets - 1)
        /\ \A s \in DOMAIN metadata.order :
              /\ DOMAIN Order(s) = 0..(Assoc - 1)
              /\ \A i \in 0..(Assoc - 1) :
                    Cardinality({p \in DOMAIN Order(s) : Order(s)[p] = i}) = 1

C1_Witness ==
    /\ Live /\ kind = LRU_PREFER_CLEAN
    /\ lastOp.op = "access"
    /\ metadata.num_sets = 2 /\ Assoc = 2
    /\ Order(0) = Reversed /\ Order(1) = Reversed

\* C2: for LRU and LRU-Prefer-Clean, right after record_access(set, tag)
\* where tag matches a non-INVALID line of the set, position 0 of that set's
\* order table is the first such line in index order.
C2_MoveToFront ==
    (/\ Live /\ kind \in Recency
     /\ lastOp.op = "access"
     /\ Matches(cache_system, lastOp.set, lastOp.tag) # {}) =>
        /\ Order(lastOp.set)[0] \in Matches(cache_system, lastOp.set, lastOp.tag)
        /\ \A j \in Matches(cache_system, lastOp.set, lastOp.tag) :
              Order(lastOp.set)[0] <= j

C2_Witness ==
    /\ Live /\ kind = LRU
    /\ lastOp.op = "access" /\ lastOp.n = 1
    /\ Assoc = 3
    /\ Matches(cache_system, lastOp.set, lastOp.tag) = {1, 2}
    /\ StatusOf(lastOp.set, 0) = INVALID
    /\ Line(cache_system, lastOp.set, 0).tag = lastOp.tag
    /\ Order(lastOp.set)[0] = 1

\* C3: for LRU, the order table lists the accessed lines by decreasing
\* last-access time, then the never-accessed lines in ascending index order;
\* select_eviction_candidate returns the tail: the never-accessed line of
\* highest index if there is one, else the line whose last access is oldest.
RECURSIVE Ascending(_)
Ascending(S) ==
    IF S = {} THEN <<>>
    ELSE LET m == CHOOSE x \in S : \A y \in S : x <= y
         IN <<m>> \o Ascending(S \ {m})

Untouched(s) == (0..(Assoc - 1)) \ {hist[s][k] : k \in 1..Len(hist[s])}

C3_RecencyOrder ==
    (Live /\ kind = LRU /\ track) =>
        /\ \A s \in DOMAIN metadata.order :
              [p \in 1..Assoc |-> Order(s)[p - 1]] = hist[s] \o Ascending(Untouched(s))
        /\ lastOp.op = "select" =>
              ret = IF Untouched(lastOp.set) # {}
                    THEN CHOOSE x \in Untouched(lastOp.set) :
                            \A y \in Untouched(lastOp.set) : y <= x
                    ELSE hist[lastOp.set][Len(hist[lastOp.set])]

C3_Witness ==
    /\ Live /\ kind = LRU /\ track
    /\ lastOp.op = "select"
    /\ Assoc = 3
    /\ hist[lastOp.set] = <<2, 1, 0>>
    /\ Order(lastOp.set) = Reversed
    /\ ret = 0

\* C4: for LRU-Prefer-Clean, select_eviction_candidate returns the EXCLUSIVE
\* line nearest the tail of the set's order table when the set has an
\* EXCLUSIVE line, and otherwise the tail entry, as plain LRU does.
Clean(s) == {i \in 0..(Assoc - 1) : StatusOf(s, i) = EXCLUSIVE}
PosOf(s, i) == CHOOSE p \in DOMAIN Order(s) : Order(s)[p] = i

C4_PreferClean ==
    (Live /\ kind = LRU_PREFER_CLEAN /\ lastOp.op = "select") =>
        IF Clean(lastOp.set) # {}
        THEN /\ ret \in Clean(lastOp.set)
             /\ \A j \in Clean(lastOp.set) : PosOf(lastOp.set, j) <= PosOf(lastOp.set, ret)
        ELSE /\ ret = Order(lastOp.set)[Assoc - 1]
             /\ ret = lru_eviction_index(metadata, cache_system, lastOp.set)

C4_Witness ==
    /\ Live /\ kind = LRU_PREFER_CLEAN /\ lastOp.op = "select"
    /\ Assoc = 3
    /\ Order(lastOp.set) = Reversed
    /\ StatusOf(lastOp.set, 0) = MODIFIED
    /\ StatusOf(lastOp.set, 1) = EXCLUSIVE
    /\ StatusOf(lastOp.set, 2) = EXCLUSIVE
    /\ ret = 1

C4_WitnessAllDirty ==
    /\ Live /\ kind = LRU_PREFER_CLEAN /\ lastOp.op = "select"
    /\ Assoc = 3
    /\ Order(lastOp.set) = Reversed
    /\ \A i \in 0..2 : StatusOf(lastOp.set, i) = MODIFIED
    /\ ret = 0

\* C5: for every policy, select_eviction_candidate returns a local line index
\* in [0, associativity); with associativity 1 it returns 0.
C5_InRange ==
    (Live /\ lastOp.op = "select") =>
        /\ ret \in 0..(cache_system.associativity - 1)
        /\ cache_system.associativity = 1 => ret = 0

C5_Witness ==
    /\ Live /\ kind = RAND /\ lastOp.op = "select"
    /\ cache_system.associativity = 3
    /\ ret = 2

\* C6: select_eviction_candidate is read-only for all three policies: it
\* leaves the order tables, num_sets, associativity and every cache line
\* unchanged; the metadata of a live policy changes only through
\* record_access and release.
C6_SelectReadOnly ==
    [][/\ lastOp'.op = "select" =>
            /\ metadata' = metadata
            /\ data' = data
            /\ cache_system' = cache_system
       /\ (Live /\ metadata' # metadata) => lastOp'.op \in {"access", "release"}]_vars

C6_Witness ==
    /\ Live /\ kind = LRU_PREFER_CLEAN /\ lastOp.op = "select"
    /\ metadata.num_sets = 2 /\ Assoc = 2
    /\ lastOp.set = 1
    /\ Order(1) = Reversed
    /\ ret = 1

\* C7: for LRU and LRU-Prefer-Clean, two select_eviction_candidate calls in a
\* row on the same set, with no record_access and no cache line change in
\* between, return the same index.
C7_SelectRepeatable ==
    [][(/\ kind \in Recency
        /\ lastOp.op = "select" /\ lastOp'.op = "select"
        /\ lastOp'.set = lastOp.set) => ret' = ret]_vars

C7_Witness ==
    /\ Live /\ kind = LRU /\ lastOp.op = "select" /\ lastOp.n = 2
    /\ Assoc = 3
    /\ Order(lastOp.set) # Identity
    /\ ret = Order(lastOp.set)[2]

\* C8: for LRU and LRU-Prefer-Clean, record_access with a tag that matches no
\* non-INVALID line of the set (also when only an INVALID line holds it) is a
\* silent no-op: every order table is left as it was, no error is raised.
C8_UnresolvedNoOp ==
    [][(/\ Live /\ kind \in Recency
        /\ lastOp'.op = "access"
        /\ Matches(cache_system, lastOp'.set, lastOp'.tag) = {}) =>
            /\ metadata' = metadata
            /\ data' = data
            /\ pc' = "live"]_vars

C8_Witness ==
    /\ Live /\ kind = LRU /\ lastOp.op = "access"
    /\ Assoc = 3
    /\ Matches(cache_system, lastOp.set, lastOp.tag) = {}
    /\ StatusOf(lastOp.set, 0) = INVALID
    /\ Line(cache_system, lastOp.set, 0).tag = lastOp.tag
    /\ StatusOf(lastOp.set, 1) # INVALID
    /\ Order(lastOp.set) = Reversed

\* C9: construction of any policy fails cleanly when an allocation fails
\* partway through: no instance is returned, the failed allocation is never
\* used and everything allocated before the failure has been released.
C9_CleanFailure ==
    failed # NoBlk =>
        /\ pc = "nomem"
        /\ ~nullDeref
        /\ allocated = {}

\* C10: release is idempotent for every policy: the first call frees each
\* per-set order array, the pointer array and the metadata struct exactly
\* once, and a later call frees nothing again.
Owned ==
    IF kind = RAND THEN {MetaBlk}
    ELSE {MetaBlk, OrderBlk} \cup RowsBelow(cache_system.num_sets)

C10_ReleaseIdempotent ==
    pc = "released" =>
        /\ data = "NULL"
        /\ \A b \in Owned : freeCount[b] = 1 /\ b \notin allocated
        /\ \A b \in Blocks \ Owned : freeCount[b] = 0

C10_Witness ==
    /\ pc = "released" /\ releases = 2 /\ lastOp.op = "release"
    /\ kind = LRU /\ cache_system.num_sets = 2
    /\ freeCount[RowBlk(1)] = 1

\* C11: release called on a null/absent policy instance is a no-op for every
\* policy: nothing is read through the absent instance, the call returns and
\* the heap is as it was.
C11_NullReleaseSafe ==
    (failed \in {PolicyBlk, MetaBlk} /\ lastOp.op = "release") =>
        /\ pc = "nomem"
        /\ allocated = {}
        /\ \A b \in Blocks \ {PolicyBlk} : freeCount[b] = 0

\* C12: a select_eviction_candidate or record_access call with a set index
\* not below num_sets, or on a policy of associativity 0, fails fast: the
\* call stops the process instead of returning.
C12_FailFast ==
    (/\ lastOp.op \in {"select", "access"}
     /\ lastOp.set >= cache_system.num_sets \/ cache_system.associativity = 0) =>
        pc = "crashed"

\* C13: for the Random policy record_access is a no-op: it changes neither
\* the metadata nor a cache line, and after any number of record_access
\* calls select_eviction_candidate can still return exactly the indices of
\* [0, associativity).
C13_RandAccessNoOp ==
    [][(kind = RAND /\ lastOp'.op = "access") =>
          /\ metadata' = metadata
          /\ data' = data
          /\ cache_system' = cache_system
          /\ allocated' = allocated
          /\ pc' = pc
          /\ \A s \in SetIndexes :
                /\ rand_eviction_index(metadata', cache_system', s)
                      = 0..(cache_system.associativity - 1)
                /\ rand_eviction_index_modulo(metadata', cache_system', s)
                      = 0..(cache_system.associativity - 1)]_vars

C13_Witness ==
    /\ Live /\ kind = RAND
    /\ lastOp.op = "access" /\ lastOp.n = 2
    /\ Assoc = 3
    /\ rand_eviction_index(metadata, cache_system, 0) = {0, 1, 2}

\* C14: the Random policy's select_eviction_candidate is uniform over
\* [0, associativity): every index is produced by the same number of
\* generator outcomes, whatever the associativity, and the result depends
\* neither on the set index nor on the cache contents.
C14_Uniform ==
    (Live /\ kind = RAND /\ lastOp.op = "select") =>
        /\ \A i, j \in 0..(Assoc - 1) :
              /\ Cardinality(randombytes_uniform_words(Assoc, i))
                    = Cardinality(randombytes_uniform_words(Assoc, j))
              /\ Cardinality(rand_modulo_words(metadata, i))
                    = Cardinality(rand_modulo_words(metadata, j))
        /\ \A s \in SetIndexes :
              /\ rand_eviction_index(metadata, cache_system, s)
                    = rand_eviction_index(metadata, cache_system, lastOp.set)
              /\ rand_eviction_index_modulo(metadata, cache_system, s)
                    = rand_eviction_index_modulo(metadata, cache_system, lastOp.set)

\* C15: no operation of the policy engine (construction,
\* select_eviction_candidate, record_access, release, of any policy) changes
\* the tag or the status of a cache line: the cache line storage is the same
\* before and after the call.
C15_CacheLinesUntouched ==
    [][lastOp'.op \in {"new", "select", "access", "release"} =>
          cache_system' = cache_system]_vars

C15_Witness ==
    /\ Live /\ kind = LRU
    /\ lastOp.op = "access" /\ lastOp.set = 1
    /\ metadata.num_sets = 2 /\ Assoc = 2
    /\ Order(1) = Reversed
    /\ Line(cache_system, 1, 1) = [tag |-> lastOp.tag, status |-> EXCLUSIVE]
    /\ Line(cache_system, 1, 0).status = INVALID

\* C16: for LRU and LRU-Prefer-Clean, a record_access that resolves to local
\* index i, found at position p of the set's order table, moves only the
\* prefix: afterwards position 0 holds i, the entry formerly at a position
\* j < p is at position j + 1 and the entries behind p are unchanged.
C16_PrefixMove ==
    [][(/\ Live /\ kind \in Recency
        /\ lastOp'.op = "access"
        /\ Resolved(cache_system, lastOp'.set, lastOp'.tag) >= 0) =>
          LET s == lastOp'.set
              i == Resolved(cache_system, s, lastOp'.tag)
              p == PosOf(s, i)
          IN /\ metadata'.order[s][0] = i
             /\ \A j \in 0..(p - 1) : metadata'.order[s][j + 1] = Order(s)[j]
             /\ \A j \in (p + 1)..(Assoc - 1) : metadata'.order[s][j] = Order(s)[j]]_vars

C16_Witness ==
    /\ Live /\ kind = LRU_PREFER_CLEAN
    /\ lastOp.op = "access" /\ lastOp.n = 1
    /\ Assoc = 3
    /\ Order(lastOp.set)[0] = 1 /\ Order(lastOp.set)[1] = 2 /\ Order(lastOp.set)[2] = 0
    /\ Resolved(cache_system, lastOp.set, lastOp.tag) = 1

\* C17: an LRU instance and an LRU-Prefer-Clean instance built with the same
\* num_sets and associativity and given the same record_access calls over
\* the same cache contents hold equal order tables after every step.
C17_SameOrderTables ==
    (Live /\ kind \in Recency) => twin = metadata.order

C17_Witness ==
    /\ Live /\ kind = LRU_PREFER_CLEAN
    /\ lastOp.op = "access"
    /\ Assoc = 3
    /\ Order(lastOp.set)[0] = 2 /\ Order(lastOp.set)[1] = 0 /\ Order(lastOp.set)[2] = 1
    /\ twin = metadata.order

\* C18: for LRU and LRU-Prefer-Clean, when a miss on a full set is handled
\* in order (select_eviction_candidate returns v, the new tag, held by no
\* other line of the set, is installed with a valid status into line v,
\* record_access(set, new tag) is called), line v is at position 0 of the
\* set's order table afterwards.
C18_RefilledLineIsMru ==
    [][(/\ Live /\ kind \in Recency
        /\ lastOp.op = "fill"
        /\ lastOp'.op = "access"
        /\ lastOp'.set = lastOp.set /\ lastOp'.tag = lastOp.tag) =>
          metadata'.order[lastOp.set][0] = ret]_vars

C18_Witness ==
    /\ Live /\ kind = LRU
    /\ lastOp.op = "access" /\ lastOp.set = 1
    /\ metadata.num_sets = 2 /\ Assoc = 2
    /\ run = [set |-> 1, lines |-> <<0>>]
    /\ Order(1)[0] = 0
    /\ Line(cache_system, 1, 0).tag = lastOp.tag
    /\ Line(cache_system, 1, 0).status = MODIFIED

\* C19: for LRU and LRU-Prefer-Clean, record_access(set s, tag) changes at
\* most the order table of set s: the order tables of the other sets and the
\* stored num_sets and associativity are as before the call.
C19_OtherSetsUntouched ==
    [][(Live /\ kind \in Recency /\ lastOp'.op = "access") =>
          /\ metadata'.num_sets = metadata.num_sets
          /\ metadata'.associativity = metadata.associativity
          /\ DOMAIN metadata'.order = DOMAIN metadata.order
          /\ \A s \in DOMAIN metadata.order :
                s # lastOp'.set => metadata'.order[s] = metadata.order[s]]_vars

C19_Witness ==
    /\ Live /\ kind = LRU_PREFER_CLEAN
    /\ lastOp.op = "access" /\ lastOp.set = 1
    /\ metadata.num_sets = 2 /\ Assoc = 2
    /\ Order(0) = Identity /\ Order(1) = Reversed
    /\ Resolved(cache_system, 0, lastOp.tag) = 1
    /\ Resolved(cache_system, 1, lastOp.tag) = 1

\* C20: for LRU on a full set of associativity k, the miss cycles (select,
\* fill of the returned line with a fresh tag, record_access of that tag)
\* that follow one another on the set with no other record_access in
\* between evict distinct lines as long as there are no more than k of
\* them, and k of them evict every line of the set exactly once.
C20_RunEvictsEveryLine ==
    (Live /\ kind = LRU) =>
        /\ Len(run.lines) <= Assoc
        /\ Cardinality({run.lines[i] : i \in 1..Len(run.lines)}) = Len(run.lines)
        /\ Len(run.lines) = Assoc =>
              {run.lines[i] : i \in 1..Len(run.lines)} = 0..(Assoc - 1)

C20_Witness ==
    /\ Live /\ kind = LRU
    /\ lastOp.op = "access"
    /\ Assoc = 3
    /\ run = [set |-> 0, lines |-> <<0, 2, 1>>]
    /\ Order(0)[0] = 1 /\ Order(0)[1] = 2 /\ Order(0)[2] = 0

\* C21: for LRU with associativity >= 2, the line that the latest successful
\* record_access on a set moved to the front is not the result of a
\* select_eviction_candidate on that set: the most recently used line is
\* never the victim.
C21_MruNotVictim ==
    (/\ Live /\ kind = LRU /\ track
     /\ lastOp.op = "select"
     /\ Assoc >= 2
     /\ hist[lastOp.set] # <<>>) =>
        /\ hist[lastOp.set][1] = Order(lastOp.set)[0]
        /\ ret # hist[lastOp.set][1]

C21_Witness ==
    /\ Live /\ kind = LRU /\ track
    /\ lastOp.op = "select" /\ lastOp.set = 1
    /\ metadata.num_sets = 2 /\ Assoc = 2
    /\ hist[1] = <<1>>
    /\ ret = 0

\* C22: for LRU and LRU-Prefer-Clean, record_access is idempotent on
\* repetition: a second record_access(set, tag) right after the first, with
\* no cache line changed in between, leaves the order table as the first
\* call left it.
C22_AccessIdempotent ==
    [][(/\ Live /\ kind \in Recency
        /\ lastOp.op = "access" /\ lastOp'.op = "access"
        /\ lastOp'.set = lastOp.set /\ lastOp'.tag = lastOp.tag
        /\ cache_system' = cache_system) =>
          metadata' = metadata]_vars

C22_Witness ==
    /\ Live /\ kind = LRU_PREFER_CLEAN
    /\ lastOp.op = "access" /\ lastOp.n = 2
    /\ Assoc = 3
    /\ Resolved(cache_system, lastOp.set, lastOp.tag) = 2
    /\ Order(lastOp.set)[0] = 2 /\ Order(lastOp.set)[1] = 1 /\ Order(lastOp.set)[2] = 0

====
